---- MODULE Spec2Model ----
(***************************************************************************)
(* Model of the note store of the Writer application: the IPC handlers of  *)
(* the Electron main process (src/unnamed/part_000) and the HTTP route     *)
(* handlers of the local server (src/forge.config.js).                     *)
(*                                                                         *)
(* A JavaScript string is a sequence of one-character strings; positions   *)
(* are 0-based as in JavaScript.  A path is a sequence of segments, each   *)
(* segment a string in the above sense.                                    *)
(***************************************************************************)
EXTENDS Integers, Sequences, FiniteSets, TLC

(***************************************************************************)
(* Bounds of the model                                                     *)
(***************************************************************************)
\* number of successful writes (append or update) a behaviour may perform
MaxWrites == 1

(***************************************************************************)
(* JavaScript string primitives                                            *)
(***************************************************************************)
\* the value of an argument the caller did not pass (undefined / null)
Undefined == << "undefined" >>

\* !x for an argument that is a string or absent
Falsy(x) == x = Undefined \/ x = << >>

Min(S) == CHOOSE x \in S : \A y \in S : x <= y

\* s.startsWith(pat, i)
StartsAt(s, pat, i) ==
    /\ i >= 0
    /\ i + Len(pat) <= Len(s)
    /\ \A k \in 1..Len(pat) : s[i + k] = pat[k]

\* s.indexOf(pat, from)
IndexOf(s, pat, from) ==
    LET hits == { i \in from..(Len(s) - Len(pat)) : StartsAt(s, pat, i) }
    IN  IF hits = {} THEN -1 ELSE Min(hits)

\* s.substring(a, b)
Substring(s, a, b) ==
    LET hi == IF b > Len(s) THEN Len(s) ELSE b
    IN  IF a >= hi THEN << >> ELSE SubSeq(s, a + 1, hi)

\* s.substring(a)
SubstringFrom(s, a) == Substring(s, a, Len(s))

\* s.endsWith(suffix)
EndsWith(s, suffix) ==
    Len(s) >= Len(suffix) /\ StartsAt(s, suffix, Len(s) - Len(suffix))

\* the characters String.prototype.trim removes that occur in the model
WhiteSpace == { " ", "\n", "\t", "\r" }

\* s.trim()
Trim(s) ==
    LET keep == { i \in 1..Len(s) : s[i] \notin WhiteSpace }
    IN  IF keep = {} THEN << >>
        ELSE SubSeq(s, Min(keep), CHOOSE j \in keep : \A k \in keep : k <= j)

\* s.split(sep) for a non-empty separator string
RECURSIVE Split(_, _)
Split(s, sep) ==
    LET i == IndexOf(s, sep, 0)
    IN  IF i = -1 THEN << s >>
        ELSE << Substring(s, 0, i) >> \o Split(SubstringFrom(s, i + Len(sep)), sep)

\* parts.join(sep)
RECURSIVE JoinWith(_, _)
JoinWith(parts, sep) ==
    IF parts = << >> THEN << >>
    ELSE IF Len(parts) = 1 THEN parts[1]
    ELSE parts[1] \o sep \o JoinWith(Tail(parts), sep)

\* parts.map(part => part.trim())
MapTrim(parts) == [ i \in 1..Len(parts) |-> Trim(parts[i]) ]

\* lines.filter(line => line.trim().length > 0)
RECURSIVE FilterNonBlank(_)
FilterNonBlank(lines) ==
    IF lines = << >> THEN << >>
    ELSE IF Len(Trim(Head(lines))) > 0
         THEN << Head(lines) >> \o FilterNonBlank(Tail(lines))
         ELSE FilterNonBlank(Tail(lines))

(***************************************************************************)
(* Literals of the note syntax                                             *)
(***************************************************************************)
\* <Note id="
NotePrefix == <<"<", "N", "o", "t", "e", " ", "i", "d", "=", "\"">>
Quote == << "\"" >>
Gt == << ">" >>
\* </Note>
CloseTag == <<"<", "/", "N", "o", "t", "e", ">">>
\* the segment delimiter ///
Delim == <<"/", "/", "/">>
NewLine == << "\n" >>
Slash == << "/" >>
\* the literal `<Note id="${noteId}"`
noteStartPattern(noteId) == NotePrefix \o noteId \o Quote

\* the longest first line a preview shows untruncated
PreviewMax == 22
\* '</Note>'.length, the offset the update adds to noteEnd
CloseTagLen == 7

(***************************************************************************)
(* Regular expressions of the note syntax                                  *)
(***************************************************************************)
NoMatch == [ found |-> FALSE, index |-> -1, end |-> -1, id |-> << >>, body |-> << >> ]

\* one attempt of /<Note id="([^"]+)"[^>]*>([\s\S]*?)<\/Note>/ at position p:
\* [^"]+ runs to the first quote, [^>]* to the first '>', the lazy body to
\* the first </Note>
matchNoteAt(content, p) ==
    IF ~StartsAt(content, NotePrefix, p) THEN NoMatch
    ELSE LET idStart == p + Len(NotePrefix)
             idEnd   == IndexOf(content, Quote, idStart)
         IN  IF idEnd = -1 \/ idEnd = idStart THEN NoMatch
             ELSE LET gt == IndexOf(content, Gt, idEnd + 1)
                  IN  IF gt = -1 THEN NoMatch
                      ELSE LET close == IndexOf(content, CloseTag, gt + 1)
                           IN  IF close = -1 THEN NoMatch
                               ELSE [ found |-> TRUE, index |-> p,
                                      end   |-> close + Len(CloseTag),
                                      id    |-> Substring(content, idStart, idEnd),
                                      body  |-> Substring(content, gt + 1, close) ]

\* noteRegex.exec(content) with the g flag and the given lastIndex
execNoteRegex(content, lastIndex) ==
    LET starts == { p \in lastIndex..Len(content) : matchNoteAt(content, p).found }
    IN  IF starts = {} THEN NoMatch ELSE matchNoteAt(content, Min(starts))

\* the lookup pattern with a greedy body, [\s\S]* for [\s\S]*?: the body
\* runs to the last </Note> of the text
matchNoteByIdAtGreedy(content, noteId, p) ==
    LET pat == noteStartPattern(noteId)
    IN  IF ~StartsAt(content, pat, p) THEN NoMatch
        ELSE LET gt == IndexOf(content, Gt, p + Len(pat))
             IN  IF gt = -1 \/ IndexOf(content, CloseTag, gt + 1) = -1 THEN NoMatch
                 ELSE LET close == CHOOSE c \in (gt + 1)..Len(content) :
                                      /\ StartsAt(content, CloseTag, c)
                                      /\ \A d \in (c + 1)..Len(content) :
                                            ~StartsAt(content, CloseTag, d)
                      IN  [ found |-> TRUE, index |-> p,
                            end   |-> close + Len(CloseTag),
                            id    |-> noteId,
                            body  |-> Substring(content, gt + 1, close) ]

\* one attempt of new RegExp(`<Note id="${noteId}"[^>]*>([\s\S]*?)<\/Note>`)
\* at position p, for an id free of regular-expression metacharacters
matchNoteByIdAt(content, noteId, p) ==
    LET pat == noteStartPattern(noteId)
    IN  IF ~StartsAt(content, pat, p) THEN NoMatch
        ELSE LET gt == IndexOf(content, Gt, p + Len(pat))
             IN  IF gt = -1 THEN NoMatch
                 ELSE LET close == IndexOf(content, CloseTag, gt + 1)
                      IN  IF close = -1 THEN NoMatch
                          ELSE [ found |-> TRUE, index |-> p,
                                 end   |-> close + Len(CloseTag),
                                 id    |-> noteId,
                                 body  |-> Substring(content, gt + 1, close) ]

\* noteRegex.exec(content) of handleGetNote: the leftmost match
execNoteByIdRegex(content, noteId) ==
    LET starts == { p \in 0..Len(content) : matchNoteByIdAt(content, noteId, p).found }
    IN  IF starts = {} THEN NoMatch ELSE matchNoteByIdAt(content, noteId, Min(starts))

(***************************************************************************)
(* extractNotes                                                            *)
(***************************************************************************)
\* notePreview cutting at the ten characters its comment speaks of
notePreviewTen(body) ==
    LET noteContent == Trim(body)
        lines       == FilterNonBlank(Split(noteContent, NewLine))
        firstLine   == IF Len(lines) > 0 THEN Trim(lines[1]) ELSE << >>
    IN  IF Len(firstLine) > 10
        THEN Substring(firstLine, 0, 10) \o << ".", "." >>
        ELSE firstLine

\* the preview of one matched body
notePreview(body) ==
    LET noteContent == Trim(body)
        lines       == FilterNonBlank(Split(noteContent, NewLine))
        firstLine   == IF Len(lines) > 0 THEN Trim(lines[1]) ELSE << >>
    IN  IF Len(firstLine) > PreviewMax
        THEN Substring(firstLine, 0, PreviewMax) \o << ".", "." >>
        ELSE firstLine

\* the loop of extractNotes putting each note in front of the earlier ones
RECURSIVE extractNotesFromUnshift(_, _)
extractNotesFromUnshift(content, lastIndex) ==
    LET match == execNoteRegex(content, lastIndex)
    IN  IF ~match.found THEN << >>
        ELSE extractNotesFromUnshift(content, match.end)
             \o << [ id |-> match.id, preview |-> notePreview(match.body) ] >>

\* the while loop of extractNotes, from the regular expression's lastIndex
RECURSIVE extractNotesFrom(_, _)
extractNotesFrom(content, lastIndex) ==
    LET match == execNoteRegex(content, lastIndex)
    IN  IF ~match.found THEN << >>
        ELSE << [ id |-> match.id, preview |-> notePreview(match.body) ] >>
             \o extractNotesFrom(content, match.end)

extractNotes(content) == extractNotesFrom(content, 0)

\* parseNote taking the second segment alone as the reference
parseNoteSecondPartOnly(body) ==
    LET noteContent == Trim(body)
        parts       == MapTrim(Split(noteContent, Delim))
        reference   == IF Len(parts) >= 2 THEN parts[2] ELSE << >>
    IN  [ content |-> parts[1], reference |-> reference ]

\* the decomposition of a matched body in handleGetNote
parseNote(body) ==
    LET noteContent == Trim(body)
        parts       == MapTrim(Split(noteContent, Delim))
        reference   == IF Len(parts) >= 2
                       THEN Trim(JoinWith(Tail(parts), NewLine \o NewLine))
                       ELSE << >>
    IN  [ content |-> parts[1], reference |-> reference ]

(***************************************************************************)
(* Paths                                                                   *)
(***************************************************************************)
\* the configured chapters directory, /book/chapters
CHAPTERS_DIR == << <<"b", "o", "o", "k">>, <<"c", "h", "a", "p", "t", "e", "r", "s">> >>

\* path.normalize on the segments of an absolute path
RECURSIVE normalize(_, _)
normalize(done, segs) ==
    IF segs = << >> THEN done
    ELSE LET s == Head(segs)
         IN  IF s = << >> \/ s = << "." >> THEN normalize(done, Tail(segs))
             ELSE IF s = << ".", "." >>
                  THEN normalize(IF done = << >> THEN done
                                 ELSE SubSeq(done, 1, Len(done) - 1), Tail(segs))
                  ELSE normalize(Append(done, s), Tail(segs))

\* path.join(dir, filename) for an absolute dir
join(dir, filename) == normalize(dir, Split(filename, Slash))

\* the path is the chapters directory or lies inside it
InsideChapters(path) ==
    /\ Len(path) >= Len(CHAPTERS_DIR)
    /\ SubSeq(path, 1, Len(CHAPTERS_DIR)) = CHAPTERS_DIR

(***************************************************************************)
(* The file-storage collaborator (fs.promises)                             *)
(***************************************************************************)
NoEntry == [ kind |-> "none", data |-> << >> ]
DirEntry == [ kind |-> "dir", data |-> << >> ]
FileEntry(text) == [ kind |-> "file", data |-> text ]

IoCall(call, path) == [ call |-> call, path |-> path ]

\* await fs.access(path) succeeds
accessOk(files, path) == files[path].kind # "none"

\* await fs.readFile(path, 'utf8') succeeds
readOk(files, path) == files[path].kind = "file"

\* fs.appendFile replacing the file's content, as fs.writeFile does
appendFileOverwrites(files, path, data) ==
    [ files EXCEPT ![path] = FileEntry(data) ]

\* the files after fs.appendFile(path, data, 'utf8'), which creates a
\* missing file
appendFile(files, path, data) ==
    [ files EXCEPT ![path] = FileEntry(files[path].data \o data) ]

\* the files after fs.writeFile(path, data, 'utf8')
writeFile(files, path, data) ==
    [ files EXCEPT ![path] = FileEntry(data) ]

\* fs.appendFile and fs.writeFile succeed on everything but a directory
writeOk(files, path) == files[path].kind # "dir"

\* fs.readdir(CHAPTERS_DIR): the names present, in the listing order
RECURSIVE readdir(_, _)
readdir(files, order) ==
    IF order = << >> THEN << >>
    ELSE IF files[Append(CHAPTERS_DIR, Head(order))].kind # "none"
         THEN << Head(order) >> \o readdir(files, Tail(order))
         ELSE readdir(files, Tail(order))

ExtMd == << ".", "m", "d" >>
ExtMdx == << ".", "m", "d", "x" >>

\* files.filter(file => file.endsWith('.md') || file.endsWith('.mdx'))
RECURSIVE filterMd(_)
filterMd(names) ==
    IF names = << >> THEN << >>
    ELSE IF EndsWith(Head(names), ExtMd) \/ EndsWith(Head(names), ExtMdx)
         THEN << Head(names) >> \o filterMd(Tail(names))
         ELSE filterMd(Tail(names))

\* validateFile: the joined path, and whether fs.access let it through;
\* path.join throws a TypeError for an argument that is not a string
validateFile(files, filename) ==
    IF filename = Undefined
    THEN [ ok |-> FALSE, error |-> "TypeError", safePath |-> CHAPTERS_DIR, io |-> << >> ]
    ELSE LET safePath == join(CHAPTERS_DIR, filename)
         IN  [ ok       |-> accessOk(files, safePath),
               error    |-> IF accessOk(files, safePath) THEN "" ELSE "File not found",
               safePath |-> safePath,
               io       |-> << IoCall("access", safePath) >> ]

(***************************************************************************)
(* Results of a handler: the reply relayed to the caller, the files it     *)
(* leaves and the storage calls it made, in order                          *)
(***************************************************************************)
NoData == [ notes |-> << >>, filename |-> << >>, content |-> << >>, reference |-> << >> ]

\* a resolved IPC call / sendJson(res, 200, ...)
Success(code, data, files, io) ==
    [ ok |-> TRUE, code |-> code, error |-> "", data |-> data, files |-> files, io |-> io ]

\* a rejected IPC call (code 0) / sendError(res, code, message)
Failure(code, message, files, io) ==
    [ ok |-> FALSE, code |-> code, error |-> message, data |-> NoData,
      files |-> files, io |-> io ]

(***************************************************************************)
(* Steps shared by the two transports' copies of the handlers              *)
(***************************************************************************)
\* the check without its !content
missingAppendInputFilenameOnly(filename, content) == Falsy(filename)

\* !filename || !content
missingAppendInput(filename, content) == Falsy(filename) \/ Falsy(content)

\* the check without its !noteId
missingUpdateInputNoId(noteId, filename, content) == Falsy(filename) \/ Falsy(content)

\* !filename || !content || !noteId
missingUpdateInput(noteId, filename, content) ==
    Falsy(filename) \/ Falsy(content) \/ Falsy(noteId)

\* the searches without the noteStart === -1 exit: indexOf and substring
\* take the -1 for 0
locateNoteNoIdCheck(fileContent, noteId) ==
    LET found      == IndexOf(fileContent, noteStartPattern(noteId), 0)
        noteStart  == IF found = -1 THEN 0 ELSE found
        openTagEnd == IndexOf(fileContent, Gt, noteStart)
        noteEnd    == IF openTagEnd = -1 THEN -1
                      ELSE IndexOf(fileContent, CloseTag, openTagEnd)
    IN  [ noteStart |-> noteStart, openTagEnd |-> openTagEnd, noteEnd |-> noteEnd ]

\* the searches with the end of the text standing in for a missing </Note>
locateNoteEofCloses(fileContent, noteId) ==
    LET noteStart  == IndexOf(fileContent, noteStartPattern(noteId), 0)
        openTagEnd == IF noteStart = -1 THEN -1 ELSE IndexOf(fileContent, Gt, noteStart)
        found      == IF openTagEnd = -1 THEN -1
                      ELSE IndexOf(fileContent, CloseTag, openTagEnd)
        noteEnd    == IF openTagEnd # -1 /\ found = -1 THEN Len(fileContent) ELSE found
    IN  [ noteStart |-> noteStart, openTagEnd |-> openTagEnd, noteEnd |-> noteEnd ]

\* the searches without the check of the opening tag's '>': the closing
\* tag is looked for from the start of the note
locateNoteNoGtCheck(fileContent, noteId) ==
    LET noteStart  == IndexOf(fileContent, noteStartPattern(noteId), 0)
        found      == IF noteStart = -1 THEN -1 ELSE IndexOf(fileContent, Gt, noteStart)
        openTagEnd == IF noteStart # -1 /\ found = -1 THEN noteStart ELSE found
        noteEnd    == IF openTagEnd = -1 THEN -1
                      ELSE IndexOf(fileContent, CloseTag, openTagEnd)
    IN  [ noteStart |-> noteStart, openTagEnd |-> openTagEnd, noteEnd |-> noteEnd ]

\* the searches starting from the last `<Note id="ID"` of the text
locateNoteLast(fileContent, noteId) ==
    LET starts     == { i \in 0..Len(fileContent) :
                          StartsAt(fileContent, noteStartPattern(noteId), i) }
        noteStart  == IF starts = { } THEN -1
                      ELSE CHOOSE i \in starts : \A j \in starts : j <= i
        openTagEnd == IF noteStart = -1 THEN -1 ELSE IndexOf(fileContent, Gt, noteStart)
        noteEnd    == IF openTagEnd = -1 THEN -1
                      ELSE IndexOf(fileContent, CloseTag, openTagEnd)
    IN  [ noteStart |-> noteStart, openTagEnd |-> openTagEnd, noteEnd |-> noteEnd ]

\* the three searches of handleUpdateNote: the first `<Note id="ID"`, the
\* first '>' from there, the first '</Note>' from that '>'; -1 where a
\* search fails, and for the searches that would follow it
locateNote(fileContent, noteId) ==
    LET noteStart  == IndexOf(fileContent, noteStartPattern(noteId), 0)
        openTagEnd == IF noteStart = -1 THEN -1 ELSE IndexOf(fileContent, Gt, noteStart)
        noteEnd    == IF openTagEnd = -1 THEN -1
                      ELSE IndexOf(fileContent, CloseTag, openTagEnd)
    IN  [ noteStart |-> noteStart, openTagEnd |-> openTagEnd, noteEnd |-> noteEnd ]

\* `\n${content}`
appendContentOneNewline(content) == NewLine \o content

\* `\n\n${content}`
appendContent(content) == NewLine \o NewLine \o content

\* the replacement of the body alone, between the '>' of the opening tag and
\* the '</Note>'
updatedContentBodyOnly(fileContent, noteStart, noteEnd, content) ==
    LET openTagEnd == IndexOf(fileContent, Gt, noteStart)
        beforeNote == Substring(fileContent, 0, openTagEnd + 1)
        afterNote  == SubstringFrom(fileContent, noteEnd)
    IN  beforeNote \o content \o afterNote

\* beforeNote + content + afterNote
updatedContent(fileContent, noteStart, noteEnd, content) ==
    LET beforeNote == Substring(fileContent, 0, noteStart)
        afterNote  == SubstringFrom(fileContent, noteEnd + CloseTagLen)
    IN  beforeNote \o content \o afterNote

\* the loop without its break: the last file with a match
RECURSIVE searchNoteLast(_, _, _, _)
searchNoteLast(files, mdFiles, noteId, io) ==
    IF mdFiles = << >>
    THEN [ found |-> FALSE, failed |-> FALSE, filename |-> << >>,
           note |-> parseNote(<< >>), io |-> io ]
    ELSE LET file     == Head(mdFiles)
             filePath == Append(CHAPTERS_DIR, file)
             io2      == Append(io, IoCall("readFile", filePath))
         IN  IF ~readOk(files, filePath)
             THEN [ found |-> FALSE, failed |-> TRUE, filename |-> << >>,
                    note |-> parseNote(<< >>), io |-> io2 ]
             ELSE LET match == execNoteByIdRegex(files[filePath].data, noteId)
                      rest  == searchNoteLast(files, Tail(mdFiles), noteId, io2)
                  IN  IF rest.found \/ rest.failed \/ ~match.found THEN rest
                      ELSE [ found |-> TRUE, failed |-> FALSE, filename |-> file,
                             note |-> parseNote(match.body), io |-> rest.io ]

\* the for loop of handleGetNote over mdFiles: the first file with a match
RECURSIVE searchNote(_, _, _, _)
searchNote(files, mdFiles, noteId, io) ==
    IF mdFiles = << >>
    THEN [ found |-> FALSE, failed |-> FALSE, filename |-> << >>,
           note |-> parseNote(<< >>), io |-> io ]
    ELSE LET file     == Head(mdFiles)
             filePath == Append(CHAPTERS_DIR, file)
             io2      == Append(io, IoCall("readFile", filePath))
         IN  IF ~readOk(files, filePath)
             THEN [ found |-> FALSE, failed |-> TRUE, filename |-> << >>,
                    note |-> parseNote(<< >>), io |-> io2 ]
             ELSE LET match == execNoteByIdRegex(files[filePath].data, noteId)
                  IN  IF match.found
                      THEN [ found |-> TRUE, failed |-> FALSE, filename |-> file,
                             note |-> parseNote(match.body), io |-> io2 ]
                      ELSE searchNote(files, Tail(mdFiles), noteId, io2)

(***************************************************************************)
(* IPC handlers (Electron main process)                                    *)
(***************************************************************************)
handleAppendContent(files, filename, content) ==
    IF missingAppendInput(filename, content)
    THEN Failure(0, "Missing filename or content", files, << >>)
    ELSE LET v == validateFile(files, filename)
         IN  IF ~v.ok THEN Failure(0, v.error, files, v.io)
             ELSE LET io == Append(v.io, IoCall("appendFile", v.safePath))
                  IN  IF ~writeOk(files, v.safePath)
                      THEN Failure(0, "EISDIR", files, io)
                      ELSE Success(0, NoData,
                                   appendFile(files, v.safePath, appendContent(content)), io)

handleGetNotes(files, filename) ==
    LET v == validateFile(files, filename)
    IN  IF ~v.ok THEN Failure(0, v.error, files, v.io)
        ELSE LET io == Append(v.io, IoCall("readFile", v.safePath))
             IN  IF ~readOk(files, v.safePath)
                 THEN Failure(0, "EISDIR", files, io)
                 ELSE Success(0, [ NoData EXCEPT
                                     !.filename = filename,
                                     !.notes = extractNotes(files[v.safePath].data) ],
                              files, io)

handleGetNote(files, order, noteId) ==
    LET mdFiles == filterMd(readdir(files, order))
        r       == searchNote(files, mdFiles, noteId, << IoCall("readdir", CHAPTERS_DIR) >>)
    IN  IF r.failed THEN Failure(0, "EISDIR", files, r.io)
        ELSE IF r.found
             THEN Success(0, [ NoData EXCEPT !.filename = r.filename,
                                              !.content = r.note.content,
                                              !.reference = r.note.reference ],
                          files, r.io)
             ELSE Failure(0, "Note not found", files, r.io)

handleUpdateNote(files, noteId, filename, content) ==
    IF missingUpdateInput(noteId, filename, content)
    THEN Failure(0, "Missing filename, content, or noteId", files, << >>)
    ELSE LET v == validateFile(files, filename)
         IN  IF ~v.ok THEN Failure(0, v.error, files, v.io)
             ELSE LET io == Append(v.io, IoCall("readFile", v.safePath))
                  IN  IF ~readOk(files, v.safePath)
                      THEN Failure(0, "EISDIR", files, io)
                      ELSE
    LET fileContent == files[v.safePath].data
        at          == locateNote(fileContent, noteId)
    IN  IF at.noteStart = -1 THEN Failure(0, "Note not found in file", files, io)
        ELSE IF at.openTagEnd = -1 THEN Failure(0, "Malformed Note tag", files, io)
        ELSE IF at.noteEnd = -1 THEN Failure(0, "Note closing tag not found", files, io)
        ELSE Success(0, NoData,
                     writeFile(files, v.safePath,
                               updatedContent(fileContent, at.noteStart, at.noteEnd, content)),
                     Append(io, IoCall("writeFile", v.safePath)))

(***************************************************************************)
(* HTTP route handlers (local server)                                      *)
(***************************************************************************)
\* POST /api/append without validateFile: fs.appendFile creates the file
httpAppendContentCreates(files, filename, content) ==
    IF missingAppendInput(filename, content)
    THEN Failure(400, "Missing filename or content", files, << >>)
    ELSE LET safePath == join(CHAPTERS_DIR, filename)
             io       == << IoCall("appendFile", safePath) >>
         IN  IF ~writeOk(files, safePath)
             THEN Failure(500, "Failed to append content", files, io)
             ELSE Success(200, NoData,
                          appendFile(files, safePath, appendContent(content)), io)

httpAppendContent(files, filename, content) ==
    IF missingAppendInput(filename, content)
    THEN Failure(400, "Missing filename or content", files, << >>)
    ELSE LET v == validateFile(files, filename)
         IN  IF ~v.ok THEN Failure(404, "File not found", files, v.io)
             ELSE LET io == Append(v.io, IoCall("appendFile", v.safePath))
                  IN  IF ~writeOk(files, v.safePath)
                      THEN Failure(500, "Failed to append content", files, io)
                      ELSE Success(200, NoData,
                                   appendFile(files, v.safePath, appendContent(content)), io)

httpGetNotes(files, filename) ==
    LET v == validateFile(files, filename)
    IN  IF ~v.ok
        THEN IF v.error = "File not found"
             THEN Failure(404, "File not found", files, v.io)
             ELSE Failure(500, "Failed to load notes", files, v.io)
        ELSE LET io == Append(v.io, IoCall("readFile", v.safePath))
             IN  IF ~readOk(files, v.safePath)
                 THEN Failure(500, "Failed to load notes", files, io)
                 ELSE Success(200, [ NoData EXCEPT
                                       !.filename = filename,
                                       !.notes = extractNotes(files[v.safePath].data) ],
                              files, io)

httpGetNote(files, order, noteId) ==
    LET mdFiles == filterMd(readdir(files, order))
        r       == searchNote(files, mdFiles, noteId, << IoCall("readdir", CHAPTERS_DIR) >>)
    IN  IF r.failed THEN Failure(500, "Failed to load note", files, r.io)
        ELSE IF r.found
             THEN Success(200, [ NoData EXCEPT !.filename = r.filename,
                                                !.content = r.note.content,
                                                !.reference = r.note.reference ],
                          files, r.io)
             ELSE Failure(404, "Note not found", files, r.io)

httpUpdateNote(files, noteId, filename, content) ==
    IF missingUpdateInput(noteId, filename, content)
    THEN Failure(400, "Missing filename, content, or noteId", files, << >>)
    ELSE LET v == validateFile(files, filename)
         IN  IF ~v.ok THEN Failure(404, "File not found", files, v.io)
             ELSE LET io == Append(v.io, IoCall("readFile", v.safePath))
                  IN  IF ~readOk(files, v.safePath)
                      THEN Failure(500, "Failed to update note", files, io)
                      ELSE
    LET fileContent == files[v.safePath].data
        at          == locateNote(fileContent, noteId)
    IN  IF at.noteStart = -1 THEN Failure(404, "Note not found in file", files, io)
        ELSE IF at.openTagEnd = -1 THEN Failure(500, "Malformed Note tag", files, io)
        ELSE IF at.noteEnd = -1 THEN Failure(500, "Note closing tag not found", files, io)
        ELSE Success(200, NoData,
                     writeFile(files, v.safePath,
                               updatedContent(fileContent, at.noteStart, at.noteEnd, content)),
                     Append(io, IoCall("writeFile", v.safePath)))

(***************************************************************************)
(* Inputs and initial contents                                             *)
(***************************************************************************)
\* names of the entries of the chapters directory
NameA == <<"a", ".", "m", "d">>
NameB == <<"b", ".", "m", "d", "x">>
NameC == <<"c", ".", "t", "x", "t">>
\* ../s.md, which path.join resolves to /book/s.md
FileUp == <<".", ".", "/", "s", ".", "m", "d">>
\* /s.md, which path.join resolves to /book/chapters/s.md
FileAbs == <<"/", "s", ".", "m", "d">>
\* z.md, a name no file has
FileZ == <<"z", ".", "m", "d">>
\* ., which path.join resolves to the chapters directory itself
FileCur == << "." >>

Id7 == << "7" >>
Id8 == << "8" >>

\* <Note id="7">old///ref</Note>
TextScenario == <<"<", "N", "o", "t", "e", " ", "i", "d", "=", "\"", "7", "\"", ">", "o", "l", "d", "/", "/", "/", "r", "e", "f", "<", "/", "N", "o", "t", "e", ">">>
\* A<Note id="7" k>x</Note>B<Note id="8">y</Note>
TextAttrs == <<"A", "<", "N", "o", "t", "e", " ", "i", "d", "=", "\"", "7", "\"", " ", "k", ">", "x", "<", "/", "N", "o", "t", "e", ">", "B", "<", "N", "o", "t", "e", " ", "i", "d", "=", "\"", "8", "\"", ">", "y", "<", "/", "N", "o", "t", "e", ">">>
\* <Note id="7">x
TextUnclosed == <<"<", "N", "o", "t", "e", " ", "i", "d", "=", "\"", "7", "\"", ">", "x">>
\* <Note id="7"
TextNoGt == <<"<", "N", "o", "t", "e", " ", "i", "d", "=", "\"", "7", "\"">>
\* End.
TextPlain == <<"E", "n", "d", ".">>
\* <Note id="7">a</Note>-<Note id="7">b</Note>
TextDup == <<"<", "N", "o", "t", "e", " ", "i", "d", "=", "\"", "7", "\"", ">", "a", "<", "/", "N", "o", "t", "e", ">", "-", "<", "N", "o", "t", "e", " ", "i", "d", "=", "\"", "7", "\"", ">", "b", "<", "/", "N", "o", "t", "e", ">">>
\* <Note id="8">q\n///\nr</Note>
TextOther == <<"<", "N", "o", "t", "e", " ", "i", "d", "=", "\"", "8", "\"", ">", "q", "\n", "/", "/", "/", "\n", "r", "<", "/", "N", "o", "t", "e", ">">>
\* <Note id="8">u<Note id="7">x</Note>, a note 7 opened inside an unclosed note 8
TextNested == <<"<", "N", "o", "t", "e", " ", "i", "d", "=", "\"", "8", "\"", ">", "u", "<", "N", "o", "t", "e", " ", "i", "d", "=", "\"", "7", "\"", ">", "x", "<", "/", "N", "o", "t", "e", ">">>
\* <Note id="7">s</Note>
TextSecret == <<"<", "N", "o", "t", "e", " ", "i", "d", "=", "\"", "7", "\"", ">", "s", "<", "/", "N", "o", "t", "e", ">">>
\* new
BodyNew == <<"n", "e", "w">>
\* <Note id="7"> z///w\n</Note>, a content that carries its own tags
BodyNote == <<"<", "N", "o", "t", "e", " ", "i", "d", "=", "\"", "7", "\"", ">", " ", "z", "/", "/", "/", "w", "\n", "<", "/", "N", "o", "t", "e", ">">>

\* the filename, note id and content arguments a caller passes
Filenames == { NameA, NameB, FileUp, FileAbs, FileZ, FileCur, << >>, Undefined }
NoteIds == { Id7, Id8, << >>, Undefined }
Contents == { BodyNew, BodyNote, << >>, Undefined }

\* the contents a.md and b.mdx may start with
InitTextsA ==
    { TextScenario, TextAttrs, TextUnclosed, TextNoGt, TextPlain, TextDup, TextOther,
      TextNested }
InitTextsB == { TextSecret }

\* the orders in which the storage lists the chapters directory
ListingOrders == { << NameC, NameA, NameB >>, << NameB, NameC, NameA >> }

PathA == Append(CHAPTERS_DIR, NameA)
PathB == Append(CHAPTERS_DIR, NameB)
PathC == Append(CHAPTERS_DIR, NameC)
\* /book/s.md, a file next to the chapters directory
PathOutside == join(CHAPTERS_DIR, FileUp)

\* every path a request can name
Paths == { join(CHAPTERS_DIR, f) : f \in Filenames \ { Undefined } } \cup { PathA, PathB, PathC }

(***************************************************************************)
(* Requests in flight: a handler is an async function, and between two of  *)
(* its awaits the handlers of other requests run                           *)
(***************************************************************************)
\* the number of requests that can be in flight together
MaxTasks == 2

\* a handler that has not been called: pc is the await the handler is at,
\* safePath and fileContent are its local variables
FreeTask ==
    [ op |-> "idle", noteId |-> << >>, filename |-> << >>, content |-> << >>,
      pc |-> "free", safePath |-> CHAPTERS_DIR, fileContent |-> << >>,
      ok |-> FALSE, error |-> "", doneAt |-> 0 ]

NoTasks == [ i \in 1..MaxTasks |-> FreeTask ]

\* the write of handleUpdateNote reading the file again instead of using
\* the content it read before
writeBackReread(files, task) ==
    LET current == files[task.safePath].data
        at      == locateNote(current, task.noteId)
    IN  IF at.noteStart = -1 \/ at.openTagEnd = -1 \/ at.noteEnd = -1 THEN files
        ELSE writeFile(files, task.safePath,
                       updatedContent(current, at.noteStart, at.noteEnd, task.content))

\* the write of handleUpdateNote: updatedContent is computed from the
\* fileContent the handler read, and replaces the file
writeBack(files, task) ==
    LET at == locateNote(task.fileContent, task.noteId)
    IN  writeFile(files, task.safePath,
                  updatedContent(task.fileContent, at.noteStart, at.noteEnd, task.content))

(***************************************************************************)
(* The state machine: one request at a time is handled and its reply       *)
(* relayed to the caller                                                   *)
(***************************************************************************)
VARIABLES
    files,   \* the storage: path -> entry
    before,  \* the storage as the request being answered found it
    order,   \* the order in which the storage lists the chapters directory
    resp,    \* the request being answered and its reply, or Idle
    writes,  \* number of successful appends and updates so far
    tasks    \* the handlers in flight, when requests run concurrently

vars == << files, before, order, resp, writes, tasks >>

Idle == [ op |-> "idle", transport |-> "", noteId |-> << >>, filename |-> << >>,
          content |-> << >>, ok |-> FALSE, code |-> 0, error |-> "",
          data |-> NoData, io |-> << >> ]

Reply(op, transport, noteId, filename, content, r) ==
    [ op |-> op, transport |-> transport, noteId |-> noteId, filename |-> filename,
      content |-> content, ok |-> r.ok, code |-> r.code, error |-> r.error,
      data |-> r.data, io |-> r.io ]

Init ==
    /\ \E ta \in InitTextsA, eb \in { FileEntry(t) : t \in InitTextsB } \cup { NoEntry } :
          files = [ p \in Paths |->
                      IF p = CHAPTERS_DIR THEN DirEntry
                      ELSE IF p = PathA THEN FileEntry(ta)
                      ELSE IF p = PathB THEN eb
                      ELSE IF p = PathC THEN FileEntry(TextSecret)
                      ELSE IF p = PathOutside THEN FileEntry(TextSecret)
                      ELSE NoEntry ]
    /\ before = files
    /\ order \in ListingOrders
    /\ resp = Idle
    /\ writes = 0
    /\ tasks = NoTasks

\* a handler that wrote takes one of the MaxWrites writes
Handled(op, transport, noteId, filename, content, r) ==
    /\ resp.op = "idle"
    /\ (r.ok /\ op \in { "append", "update" }) => writes < MaxWrites
    /\ files' = r.files
    /\ before' = files
    /\ writes' = IF r.ok /\ op \in { "append", "update" } THEN writes + 1 ELSE writes
    /\ resp' = Reply(op, transport, noteId, filename, content, r)
    /\ UNCHANGED << order, tasks >>

IpcAppendContent ==
    \E filename \in Filenames, content \in Contents :
        Handled("append", "ipc", << >>, filename, content,
                handleAppendContent(files, filename, content))

IpcGetNotes ==
    \E filename \in Filenames :
        Handled("notes", "ipc", << >>, filename, << >>, handleGetNotes(files, filename))

IpcGetNote ==
    \E noteId \in NoteIds \ { Undefined } :
        Handled("note", "ipc", noteId, << >>, << >>, handleGetNote(files, order, noteId))

IpcUpdateNote ==
    \E noteId \in NoteIds, filename \in Filenames, content \in Contents :
        Handled("update", "ipc", noteId, filename, content,
                handleUpdateNote(files, noteId, filename, content))

\* POST /api/append
HttpAppendContent ==
    \E filename \in Filenames, content \in Contents :
        Handled("append", "http", << >>, filename, content,
                httpAppendContent(files, filename, content))

\* GET /api/notes/:filename, the filename a string taken from the URL
HttpGetNotes ==
    \E filename \in Filenames \ { Undefined } :
        Handled("notes", "http", << >>, filename, << >>, httpGetNotes(files, filename))

\* GET /api/note/:id, the id a string taken from the URL
HttpGetNote ==
    \E noteId \in NoteIds \ { Undefined } :
        Handled("note", "http", noteId, << >>, << >>, httpGetNote(files, order, noteId))

\* PUT /api/note/:id, the id a string taken from the URL
HttpUpdateNote ==
    \E noteId \in NoteIds \ { Undefined }, filename \in Filenames, content \in Contents :
        Handled("update", "http", noteId, filename, content,
                httpUpdateNote(files, noteId, filename, content))

\* the reply reaches the caller; the handler is ready for the next request
Relay ==
    /\ resp.op # "idle"
    /\ resp' = Idle
    /\ before' = files
    /\ UNCHANGED << files, order, writes, tasks >>

Next ==
    \/ IpcAppendContent
    \/ IpcGetNotes
    \/ IpcGetNote
    \/ IpcUpdateNote
    \/ HttpAppendContent
    \/ HttpGetNotes
    \/ HttpGetNote
    \/ HttpUpdateNote
    \/ Relay

Spec == Init /\ [][Next]_vars

(***************************************************************************)
(* A second specification for the two pure functions of a note's body,     *)
(* the preview of extractNotes and the decomposition of handleGetNote:     *)
(* a.md holds one note 7 whose body is drawn from a bounded set, and the   *)
(* read handlers are applied to it                                         *)
(***************************************************************************)
\* the longest body, in tokens
MaxTokens == 4

\* a first line of exactly PreviewMax characters
Line22 == [ i \in 1..PreviewMax |-> "x" ]

\* the pieces bodies are made of
BodyTokens == { << "A" >>, Delim, NewLine, << " " >>, Line22 }

\* A\n///\nB\n///\nC
ExampleBody == <<"A", "\n", "/", "/", "/", "\n", "B", "\n", "/", "/", "/", "\n", "C">>

RECURSIVE TokenBodies(_)
TokenBodies(n) ==
    IF n = 0 THEN { << >> }
    ELSE LET shorter == TokenBodies(n - 1)
         IN  shorter \cup { b \o tok : b \in shorter, tok \in BodyTokens }

Bodies == TokenBodies(MaxTokens) \cup { ExampleBody }

\* the text of a file holding the one note `<Note id="7">` body `</Note>`
NoteText(body) == noteStartPattern(Id7) \o Gt \o body \o CloseTag

InitBodies ==
    /\ \E body \in Bodies :
          files = [ p \in Paths |->
                      IF p = CHAPTERS_DIR THEN DirEntry
                      ELSE IF p = PathA THEN FileEntry(NoteText(body))
                      ELSE NoEntry ]
    /\ before = files
    /\ order = << NameC, NameA, NameB >>
    /\ resp = Idle
    /\ writes = 0
    /\ tasks = NoTasks

NextBodies ==
    \/ IpcGetNotes
    \/ IpcGetNote
    \/ HttpGetNotes
    \/ HttpGetNote
    \/ Relay

SpecBodies == InitBodies /\ [][NextBodies]_vars

\* the body of the note of a.md under SpecBodies
BodyOfA ==
    SubSeq(files[PathA].data, Len(noteStartPattern(Id7)) + 2,
           Len(files[PathA].data) - Len(CloseTag))

(***************************************************************************)
(* A third specification, of concurrent requests: up to MaxTasks IPC calls *)
(* of append-content and update-note are in flight, and each await of a    *)
(* handler (validateFile, readFile, writeFile, appendFile) is a step of    *)
(* its own                                                                 *)
(***************************************************************************)
\* the arguments of the concurrent requests
TaskFilenames == { NameA, FileZ }
TaskNoteIds == { Id7, Id8 }
TaskContents == { BodyNew, << >> }

InitTasks ==
    /\ \E ta \in InitTextsA :
          files = [ p \in Paths |->
                      IF p = CHAPTERS_DIR THEN DirEntry
                      ELSE IF p = PathA THEN FileEntry(ta)
                      ELSE NoEntry ]
    /\ before = files
    /\ order = << NameC, NameA, NameB >>
    /\ resp = Idle
    /\ writes = 0
    /\ tasks = NoTasks

\* handler i returns or throws: its caller gets the reply; before is the
\* storage as the last write found it
Settle(i, r) ==
    /\ tasks' = [ tasks EXCEPT ![i].pc = "done", ![i].ok = r.ok, ![i].error = r.error,
                               ![i].doneAt = IF r.ok THEN writes + 1 ELSE 0 ]
    /\ resp' = Reply(tasks[i].op, "ipc", tasks[i].noteId, tasks[i].filename,
                     tasks[i].content, r)
    /\ files' = r.files
    /\ before' = IF r.ok THEN files ELSE before
    /\ writes' = IF r.ok THEN writes + 1 ELSE writes

\* handleAppendContent is called: the input check, then await validateFile
CallAppendContent ==
    \E i \in 1..MaxTasks, filename \in TaskFilenames, content \in TaskContents :
        /\ tasks[i].pc = "free"
        /\ UNCHANGED order
        /\ LET task == [ FreeTask EXCEPT !.op = "append", !.filename = filename,
                                         !.content = content ]
           IN  IF missingAppendInput(filename, content)
               THEN /\ tasks' = [ tasks EXCEPT ![i] = [ task EXCEPT !.pc = "done",
                                     !.error = "Missing filename or content" ] ]
                    /\ UNCHANGED << files, before, resp, writes >>
               ELSE /\ tasks' = [ tasks EXCEPT ![i] = [ task EXCEPT !.pc = "validateFile" ] ]
                    /\ UNCHANGED << files, before, resp, writes >>

\* handleUpdateNote is called: the input check, then await validateFile
CallUpdateNote ==
    \E i \in 1..MaxTasks, noteId \in TaskNoteIds, filename \in TaskFilenames,
       content \in TaskContents :
        /\ tasks[i].pc = "free"
        /\ UNCHANGED order
        /\ LET task == [ FreeTask EXCEPT !.op = "update", !.noteId = noteId,
                                         !.filename = filename, !.content = content ]
           IN  IF missingUpdateInput(noteId, filename, content)
               THEN /\ tasks' = [ tasks EXCEPT ![i] = [ task EXCEPT !.pc = "done",
                                     !.error = "Missing filename, content, or noteId" ] ]
                    /\ UNCHANGED << files, before, resp, writes >>
               ELSE /\ tasks' = [ tasks EXCEPT ![i] = [ task EXCEPT !.pc = "validateFile" ] ]
                    /\ UNCHANGED << files, before, resp, writes >>

\* await validateFile(filename) resolves or rejects
ValidateFileDone ==
    \E i \in 1..MaxTasks :
        /\ tasks[i].pc = "validateFile"
        /\ UNCHANGED order
        /\ LET v == validateFile(files, tasks[i].filename)
           IN  IF ~v.ok THEN Settle(i, Failure(0, v.error, files, v.io))
               ELSE /\ tasks' = [ tasks EXCEPT
                                    ![i].safePath = v.safePath,
                                    ![i].pc = IF tasks[i].op = "append"
                                              THEN "appendFile" ELSE "readFile" ]
                    /\ UNCHANGED << files, before, resp, writes >>

\* await fs.appendFile resolves: handleAppendContent returns
AppendFileDone ==
    \E i \in 1..MaxTasks :
        /\ tasks[i].pc = "appendFile"
        /\ UNCHANGED order
        /\ IF ~writeOk(files, tasks[i].safePath)
           THEN Settle(i, Failure(0, "EISDIR", files, << >>))
           ELSE Settle(i, Success(0, NoData,
                                  appendFile(files, tasks[i].safePath,
                                             appendContent(tasks[i].content)),
                                  << >>))

\* await fs.readFile resolves: the position detection runs on fileContent,
\* and the handler throws or goes on to await fs.writeFile
ReadFileDone ==
    \E i \in 1..MaxTasks :
        /\ tasks[i].pc = "readFile"
        /\ UNCHANGED order
        /\ IF ~readOk(files, tasks[i].safePath)
           THEN Settle(i, Failure(0, "EISDIR", files, << >>))
           ELSE LET fileContent == files[tasks[i].safePath].data
                    at          == locateNote(fileContent, tasks[i].noteId)
                IN  IF at.noteStart = -1
                    THEN Settle(i, Failure(0, "Note not found in file", files, << >>))
                    ELSE IF at.openTagEnd = -1
                    THEN Settle(i, Failure(0, "Malformed Note tag", files, << >>))
                    ELSE IF at.noteEnd = -1
                    THEN Settle(i, Failure(0, "Note closing tag not found", files, << >>))
                    ELSE /\ tasks' = [ tasks EXCEPT ![i].fileContent = fileContent,
                                                    ![i].pc = "writeFile" ]
                         /\ UNCHANGED << files, before, resp, writes >>

\* await fs.writeFile resolves: handleUpdateNote returns
WriteFileDone ==
    \E i \in 1..MaxTasks :
        /\ tasks[i].pc = "writeFile"
        /\ UNCHANGED order
        /\ Settle(i, Success(0, NoData, writeBack(files, tasks[i]), << >>))

NextTasks ==
    \/ CallAppendContent
    \/ CallUpdateNote
    \/ ValidateFileDone
    \/ AppendFileDone
    \/ ReadFileDone
    \/ WriteFileDone

SpecTasks == InitTasks /\ [][NextTasks]_vars

(***************************************************************************)
(* Vocabulary of the properties                                            *)
(***************************************************************************)
\* the path a reply's filename argument resolves to
ReplyPath(r) == join(CHAPTERS_DIR, r.filename)

\* the reply answers a request whose filename is a non-empty string
NamesPath(r) == ~Falsy(r.filename)

\* text contains pat at some position
Contains(text, pat) == \E i \in 0..Len(text) : StartsAt(text, pat, i)

\* text contains pat at some position >= from
ContainsFrom(text, pat, from) == \E i \in from..Len(text) : StartsAt(text, pat, i)

\* every file but the one at path p is as the request found it
OthersUnchanged(p) == \A q \in Paths \ { p } : files[q] = before[q]

\* the storage calls of a reply that read or write a file's content
ContentCalls == { "readFile", "appendFile", "writeFile" }

\* the error of an HTTP reply carries this status, an IPC reply has none
HttpCode(r, code) == r.transport = "http" => r.code = code

FirstTagAt(text, noteId) ==
    Min({ i \in 0..Len(text) : StartsAt(text, noteStartPattern(noteId), i) })
FirstGtFrom(text, from) == Min({ i \in from..(Len(text) - 1) : text[i + 1] = ">" })
FirstCloseFrom(text, from) == Min({ i \in from..Len(text) : StartsAt(text, CloseTag, i) })

TagFree(body) == ~Contains(body, NotePrefix) /\ ~Contains(body, CloseTag)

IsElementOf(content, noteId) ==
    LET open == noteStartPattern(noteId) \o Gt
    IN  /\ StartsAt(content, open, 0)
        /\ EndsWith(content, CloseTag)
        /\ Len(content) >= Len(open) + Len(CloseTag)
        /\ TagFree(SubSeq(content, Len(open) + 1, Len(content) - Len(CloseTag)))

ElementBody(content, noteId) ==
    SubSeq(content, Len(noteStartPattern(noteId)) + 2, Len(content) - Len(CloseTag))

\* the listing of text has an entry for a match that starts at position at
RECURSIVE ListsMatchAt(_, _, _)
ListsMatchAt(text, lastIndex, at) ==
    LET starts == { p \in lastIndex..Len(text) : matchNoteAt(text, p).found }
    IN  /\ starts # {}
        /\ \/ Min(starts) = at
           \/ Min(starts) < at /\ ListsMatchAt(text, matchNoteAt(text, Min(starts)).end, at)

C3_AppendConcatenates ==
        (resp.op = "append" /\ resp.ok) =>
          LET p == ReplyPath(resp)
          IN  /\ before[p].kind = "file"
              /\ resp.content # << >>
              /\ files[p] = FileEntry(before[p].data \o << "\n", "\n" >> \o resp.content)
              /\ OthersUnchanged(p)

C3_Witness ==
    /\ resp.op = "append" /\ resp.ok
    /\ resp.filename = NameA
    /\ resp.content = BodyNew
    /\ files[PathA].data \in { t \o << "\n", "\n" >> \o BodyNew : t \in InitTextsA }

(***************************************************************************)
(* C4  Sandboxing: whatever the filename argument, no handler reads,       *)
(* appends to or writes a path outside the configured chapters directory.  *)
(***************************************************************************)
C4_Sandboxed ==
    \A i \in DOMAIN resp.io :
        resp.io[i].call \in ContentCalls => InsideChapters(resp.io[i].path)

(***************************************************************************)
(* C5  An update whose file contains no `<Note id="ID"` fails with the     *)
(* note-scoped not-found error (HTTP 404), issues no write and leaves      *)
(* every file as it was.                                                   *)
(***************************************************************************)
C5_UnknownIdLeavesFile ==
        ( /\ resp.op = "update"
          /\ ~Falsy(resp.noteId) /\ ~Falsy(resp.content) /\ NamesPath(resp)
          /\ before[ReplyPath(resp)].kind = "file"
          /\ ~Contains(before[ReplyPath(resp)].data, noteStartPattern(resp.noteId)) )
        => /\ ~resp.ok
           /\ resp.error = "Note not found in file"
           /\ HttpCode(resp, 404)
           /\ \A i \in DOMAIN resp.io : resp.io[i].call # "writeFile"
           /\ files = before

C5_Witness ==
    /\ resp.op = "update" /\ resp.error = "Note not found in file"
    /\ resp.noteId = Id8
    /\ resp.filename = NameA
    /\ files[PathA].data = TextScenario

(***************************************************************************)
(* C6  An update of a note whose opening tag is present (`<Note id="ID"`   *)
(* and a '>' after it) with no '</Note>' after that '>' fails with the     *)
(* missing-closing-tag error and leaves every file as it was.              *)
(***************************************************************************)
C6_NoClosingTagLeavesFile ==
        ( /\ resp.op = "update"
          /\ ~Falsy(resp.noteId) /\ ~Falsy(resp.content) /\ NamesPath(resp)
          /\ before[ReplyPath(resp)].kind = "file"
          /\ LET T  == before[ReplyPath(resp)].data
                 ns == IndexOf(T, noteStartPattern(resp.noteId), 0)
                 gt == IndexOf(T, Gt, ns)
             IN  ns # -1 /\ gt # -1 /\ ~ContainsFrom(T, CloseTag, gt) )
        => /\ ~resp.ok
           /\ resp.error = "Note closing tag not found"
           /\ HttpCode(resp, 500)
           /\ files = before

C6_Witness ==
    /\ resp.op = "update" /\ resp.error = "Note closing tag not found"
    /\ resp.noteId = Id7
    /\ files[ReplyPath(resp)].data = TextUnclosed

(***************************************************************************)
(* C7  An append whose filename or content is empty or absent is rejected  *)
(* with the missing-input error (HTTP 400), never succeeds, and leaves     *)
(* every file as it was.                                                   *)
(***************************************************************************)
C7_AppendMissingInput ==
        ( /\ resp.op = "append"
          /\ \/ resp.filename \in { << >>, Undefined }
             \/ resp.content \in { << >>, Undefined } )
        => /\ ~resp.ok
           /\ resp.error = "Missing filename or content"
           /\ HttpCode(resp, 400)
           /\ files = before

C7_Witness ==
    /\ resp.op = "append" /\ resp.error = "Missing filename or content"
    /\ resp.filename = NameA
    /\ resp.content = << >>
    /\ files[PathA].kind = "file"

(***************************************************************************)
(* C8  An update whose note id, filename or content is empty or absent     *)
(* fails with the missing-input error (HTTP 400) before any path is        *)
(* resolved, read or written, also when the file or the note does not      *)
(* exist; no file changes.                                                 *)
(***************************************************************************)
C8_UpdateMissingInputFirst ==
        ( /\ resp.op = "update"
          /\ \/ resp.noteId \in { << >>, Undefined }
             \/ resp.filename \in { << >>, Undefined }
             \/ resp.content \in { << >>, Undefined } )
        => /\ ~resp.ok
           /\ resp.error = "Missing filename, content, or noteId"
           /\ HttpCode(resp, 400)
           /\ resp.io = << >>
           /\ files = before

C8_Witness ==
    /\ resp.op = "update" /\ resp.error = "Missing filename, content, or noteId"
    /\ resp.filename = FileZ
    /\ resp.noteId = << >>
    /\ resp.content = BodyNew

(***************************************************************************)
(* C9  An append or update whose filename does not resolve to an existing  *)
(* entry of the configured directory fails with the file-not-found error   *)
(* (HTTP 404), creates no file and changes none.                           *)
(***************************************************************************)
C9_MissingFileNotFound ==
        ( /\ resp.op \in { "append", "update" }
          /\ ~Falsy(resp.noteId) \/ resp.op = "append"
          /\ ~Falsy(resp.content) /\ NamesPath(resp)
          /\ ~( InsideChapters(ReplyPath(resp)) /\ before[ReplyPath(resp)].kind # "none" ) )
        => /\ ~resp.ok
           /\ resp.error = "File not found"
           /\ HttpCode(resp, 404)
           /\ files = before

(***************************************************************************)
(* C10  Lookup by id visits the .md/.mdx files of the directory in the     *)
(* storage's listing order and answers with the first file that holds a    *)
(* note of that id, and with the decomposed body of the first such note    *)
(* in it; the files listed after it are not read.  It answers not found    *)
(* when no such file holds one.                                            *)
(***************************************************************************)
\* the positions in the listing of the chapter files holding a note noteId
HoldersOf(noteId) ==
    { i \in DOMAIN order :
        /\ EndsWith(order[i], ExtMd) \/ EndsWith(order[i], ExtMdx)
        /\ files[Append(CHAPTERS_DIR, order[i])].kind = "file"
        /\ \E p \in 0..Len(files[Append(CHAPTERS_DIR, order[i])].data) :
              matchNoteByIdAt(files[Append(CHAPTERS_DIR, order[i])].data, noteId, p).found }

\* the paths of the chapter files listed at positions 1..n, in order
RECURSIVE ChapterPathsUpTo(_)
ChapterPathsUpTo(n) ==
    IF n = 0 THEN << >>
    ELSE LET path == Append(CHAPTERS_DIR, order[n])
         IN  IF /\ EndsWith(order[n], ExtMd) \/ EndsWith(order[n], ExtMdx)
                /\ files[path].kind # "none"
             THEN Append(ChapterPathsUpTo(n - 1), path)
             ELSE ChapterPathsUpTo(n - 1)

C10_LookupFirstInListing ==
    resp.op = "note" =>
        LET holders == HoldersOf(resp.noteId)
        IN  IF holders = {}
            THEN ~resp.ok /\ resp.error = "Note not found" /\ HttpCode(resp, 404)
            ELSE LET first == Min(holders)
                     text  == files[Append(CHAPTERS_DIR, order[first])].data
                     at    == Min({ p \in 0..Len(text) :
                                      matchNoteByIdAt(text, resp.noteId, p).found })
                     read  == ChapterPathsUpTo(first)
                 IN  /\ resp.ok
                     /\ resp.data.filename = order[first]
                     /\ [ content |-> resp.data.content, reference |-> resp.data.reference ]
                           = parseNote(matchNoteByIdAt(text, resp.noteId, at).body)
                     /\ resp.io = << IoCall("readdir", CHAPTERS_DIR) >>
                                     \o [ i \in DOMAIN read |-> IoCall("readFile", read[i]) ]

C10_Witness ==
    /\ resp.op = "note" /\ resp.ok
    /\ resp.noteId = Id7
    /\ Cardinality(HoldersOf(Id7)) = 2
    /\ order[1] = NameB
    /\ resp.data.filename = NameB
    /\ files[PathA].data = TextDup

(***************************************************************************)
(* C11  A lookup decomposes the trimmed body at the literal '///': the     *)
(* content is the first segment, trimmed; the reference is the later       *)
(* segments, each trimmed, joined with a blank line and trimmed; a body    *)
(* without '///' gives the whole trimmed body and the empty reference.     *)
(***************************************************************************)
\* the positions of text where a '///' is written
DelimAt(text) == { i \in 0..Len(text) : StartsAt(text, Delim, i) }

\* the delimiters a left-to-right reading takes: no two overlap, and every
\* '///' of the text is taken or overlaps one taken to its left
CutsOf(text) ==
    CHOOSE cuts \in SUBSET DelimAt(text) :
        /\ \A c, d \in cuts : c < d => c + Len(Delim) <= d
        /\ \A i \in DelimAt(text) :
              i \in cuts \/ \E c \in cuts : c < i /\ i < c + Len(Delim)

\* the k-th smallest member of a set of positions
Nth(S, k) == CHOOSE x \in S : Cardinality({ y \in S : y < x }) = k - 1

\* the segments between the cuts, in order, each trimmed
SegmentsOf(text) ==
    LET cuts == CutsOf(text)
        n    == Cardinality(cuts)
    IN  [ k \in 1..(n + 1) |->
            Trim(Substring(text,
                           IF k = 1 THEN 0 ELSE Nth(cuts, k - 1) + Len(Delim),
                           IF k = n + 1 THEN Len(text) ELSE Nth(cuts, k))) ]

C11_Decomposition ==
    ( /\ resp.op = "note" /\ resp.ok
      /\ resp.data.filename = NameA )
    => LET text     == Trim(BodyOfA)
           segments == SegmentsOf(text)
       IN  /\ resp.data.content = segments[1]
           /\ resp.data.reference
                 = Trim(JoinWith(Tail(segments), NewLine \o NewLine))
           /\ DelimAt(text) = { } =>
                 /\ resp.data.content = text
                 /\ resp.data.reference = << >>
           /\ BodyOfA = ExampleBody =>
                 /\ resp.data.content = << "A" >>
                 /\ resp.data.reference = << "B", "\n", "\n", "C" >>

C11_Witness ==
    /\ resp.op = "note" /\ resp.ok
    /\ BodyOfA = ExampleBody
    /\ resp.data.content = << "A" >>
    /\ resp.data.reference = << "B", "\n", "\n", "C" >>

(***************************************************************************)
(* C12  The preview of a note is the first non-blank line of its trimmed   *)
(* body, cut to 22 characters with '..' appended exactly when the line is  *)
(* longer than that; a body of blank lines only has the empty preview.     *)
(***************************************************************************)
\* the positions of text where a line starts
LineStarts(text) ==
    { 0 } \cup { i + 1 : i \in { j \in 0..(Len(text) - 1) : text[j + 1] = "\n" } }

\* the line of text that starts at position s, its newline excluded
LineAt(text, s) ==
    LET ends == { e \in s..Len(text) : e = Len(text) \/ text[e + 1] = "\n" }
    IN  Substring(text, s, Min(ends))

\* the first line of text with a character that is not white space, as
\* written; the empty line when there is none
FirstNonBlankLine(text) ==
    LET starts == { s \in LineStarts(text) : Trim(LineAt(text, s)) # << >> }
    IN  IF starts = { } THEN << >> ELSE LineAt(text, Min(starts))

\* a line cut to the preview's width
CutToPreview(line) ==
    IF Len(line) > PreviewMax
    THEN SubSeq(line, 1, PreviewMax) \o << ".", "." >>
    ELSE line

\* the listing of a.md, one note, was returned
ListedA ==
    /\ resp.op = "notes" /\ resp.ok
    /\ resp.filename = NameA

IdEndOf(text, p)   == Min({ i \in (p + Len(NotePrefix))..(Len(text) - 1) : text[i + 1] = "\"" })
TagEndOf(text, p)  == FirstGtFrom(text, IdEndOf(text, p) + 1)
CloseOf(text, p)   == FirstCloseFrom(text, TagEndOf(text, p) + 1)
NoteEndOf(text, p) == CloseOf(text, p) + Len(CloseTag)

IsNoteAt(text, p) ==
    /\ StartsAt(text, NotePrefix, p)
    /\ \E i \in (p + Len(NotePrefix) + 1)..(Len(text) - 1) :
          /\ text[i + 1] = "\""
          /\ \A j \in (p + Len(NotePrefix))..(i - 1) : text[j + 1] # "\""
          /\ \E g \in (i + 1)..(Len(text) - 1) :
                /\ text[g + 1] = ">"
                /\ ContainsFrom(text, CloseTag, g + 1)

\* the notes a reading from the start takes: no two overlap, and every note
\* of the text is taken or begins inside one taken before it
NotesTaken(text) ==
    LET all == { p \in 0..Len(text) : IsNoteAt(text, p) }
    IN  CHOOSE taken \in SUBSET all :
            /\ \A p, q \in taken : p < q => NoteEndOf(text, p) <= q
            /\ \A p \in all :
                  p \in taken \/ \E q \in taken : q < p /\ p < NoteEndOf(text, q)

\* the expected listing of text
ListingOf(text) ==
    LET taken == NotesTaken(text)
    IN  [ k \in 1..Cardinality(taken) |->
            LET p == Nth(taken, k)
            IN  [ id      |-> Substring(text, p + Len(NotePrefix), IdEndOf(text, p)),
                  preview |-> notePreview(Substring(text, TagEndOf(text, p) + 1,
                                                    CloseOf(text, p))) ] ]

C13_ListingInOrder ==
    ( /\ resp.op = "notes"
      /\ NamesPath(resp) /\ resp.filename # Undefined
      /\ before[ReplyPath(resp)].kind = "file" )
    => LET text == before[ReplyPath(resp)].data
       IN  /\ resp.ok
           /\ resp.data.notes = ListingOf(text)
           /\ ~Contains(text, << "<", "N", "o", "t", "e" >>)
                 => resp.data.notes = << >>

C13_Witness ==
    /\ resp.op = "notes" /\ resp.ok
    /\ Len(resp.data.notes) = 2
    /\ resp.data.notes[1].id = Id8
    /\ resp.data.notes[2].id = Id7

(***************************************************************************)
(* C14  For the same directory contents and the same arguments the IPC     *)
(* handler and the HTTP handler of an operation agree on success or        *)
(* failure, on the data returned and on the content of every file          *)
(* afterwards.                                                             *)
(***************************************************************************)
\* what the handler of the given transport makes of the request of reply r
\* when it finds the storage as that request found it
AnswerOf(transport, r) ==
    IF transport = "ipc"
    THEN CASE r.op = "append" -> handleAppendContent(before, r.filename, r.content)
           [] r.op = "notes"  -> handleGetNotes(before, r.filename)
           [] r.op = "note"   -> handleGetNote(before, order, r.noteId)
           [] r.op = "update" -> handleUpdateNote(before, r.noteId, r.filename, r.content)
    ELSE CASE r.op = "append" -> httpAppendContent(before, r.filename, r.content)
           [] r.op = "notes"  -> httpGetNotes(before, r.filename)
           [] r.op = "note"   -> httpGetNote(before, order, r.noteId)
           [] r.op = "update" -> httpUpdateNote(before, r.noteId, r.filename, r.content)

OtherTransport(transport) == IF transport = "ipc" THEN "http" ELSE "ipc"

\* the arguments of the request can be sent over either transport: the URL
\* of an HTTP request always carries a string for the id and the file name
SendableOnBoth(r) ==
    /\ r.op \in { "note", "update" } => r.noteId # Undefined
    /\ r.op = "notes" => r.filename # Undefined

C14_TransportsAgree ==
    (resp.op # "idle" /\ SendableOnBoth(resp)) =>
        LET other == AnswerOf(OtherTransport(resp.transport), resp)
        IN  /\ other.ok = resp.ok
            /\ other.data = resp.data
            /\ other.files = files
            /\ other.io = resp.io

C14_Witness ==
    /\ resp.op = "update" /\ resp.transport = "http" /\ resp.ok
    /\ resp.code = 200
    /\ files # before
    /\ handleUpdateNote(before, resp.noteId, resp.filename, resp.content).files = files

(***************************************************************************)
(* C15  An update reads the file, then writes the whole file, with no      *)
(* lock in between: when a second request writes the same file between the *)
(* two, both report success, yet the file afterwards is the update's       *)
(* rewrite of what it had read, without the effect of the other request.   *)
(***************************************************************************)
\* task i is the request whose write was the last
LastWriter(i) ==
    tasks[i].pc = "done" /\ tasks[i].ok /\ tasks[i].doneAt = writes

\* what an update of noteId with content makes of text: the first element
\* of that id replaced by the content
RewriteOf(text, noteId, content) ==
    LET noteStart == FirstTagAt(text, noteId)
        noteEnd   == FirstCloseFrom(text, FirstGtFrom(text, noteStart))
    IN  SubSeq(text, 1, noteStart) \o content
        \o SubSeq(text, noteEnd + Len(CloseTag) + 1, Len(text))

\* the request that wrote last, if an update, left its rewrite of the text
\* it had read, whatever was written since; if an append, it extended the
\* text the write found
C15_UpdateWritesWhatItRead ==
    \A i \in 1..MaxTasks :
        LastWriter(i) =>
            /\ tasks[i].op = "update" =>
                  files[tasks[i].safePath].data
                     = RewriteOf(tasks[i].fileContent, tasks[i].noteId, tasks[i].content)
            /\ tasks[i].op = "append" =>
                  files[tasks[i].safePath].data
                     = before[tasks[i].safePath].data \o appendContent(tasks[i].content)
            /\ \A p \in Paths \ { tasks[i].safePath } : files[p] = before[p]
\* an append and an update of a.md both reported success, the append wrote
\* between the update's read and its write, and what it appended is gone
C15_LostAppend ==
    \E i, j \in 1..MaxTasks :
        /\ tasks[i].op = "update" /\ LastWriter(i)
        /\ tasks[j].op = "append" /\ tasks[j].pc = "done" /\ tasks[j].ok
        /\ tasks[j].doneAt = 1 /\ tasks[i].doneAt = 2
        /\ tasks[i].safePath = PathA /\ tasks[j].safePath = PathA
        /\ before[PathA].data = tasks[i].fileContent \o appendContent(tasks[j].content)
        /\ ~Contains(files[PathA].data, appendContent(tasks[j].content))

\* two updates of different notes of a.md both reported success, both had
\* read the same text, and the rewrite of the first is gone
C15_LostUpdate ==
    \E i, j \in 1..MaxTasks :
        /\ tasks[i].op = "update" /\ LastWriter(i)
        /\ tasks[j].op = "update" /\ tasks[j].pc = "done" /\ tasks[j].ok
        /\ tasks[j].doneAt = 1 /\ tasks[i].doneAt = 2
        /\ tasks[i].safePath = PathA /\ tasks[j].safePath = PathA
        /\ tasks[i].noteId # tasks[j].noteId
        /\ tasks[i].fileContent = tasks[j].fileContent
        /\ before[PathA].data # tasks[i].fileContent
        /\ Contains(files[PathA].data, noteStartPattern(tasks[j].noteId))

C15_Witness == C15_LostAppend

(***************************************************************************)
(* C16  A successful append or update whose content has no Note tags       *)
(* destroys no note: the ids listed for the file before are still listed   *)
(* after it, in the same relative order.                                   *)
(***************************************************************************)
\* the ids of a listing, in order
IdsOf(notes) == [ k \in DOMAIN notes |-> notes[k].id ]

\* sequence a is b with some members left out
RECURSIVE IsSubsequence(_, _)
IsSubsequence(a, b) ==
    IF a = << >> THEN TRUE
    ELSE IF b = << >> THEN FALSE
    ELSE IF Head(a) = Head(b) THEN IsSubsequence(Tail(a), Tail(b))
    ELSE IsSubsequence(a, Tail(b))

\* a request that wrote a file, with content free of Note tags
WroteTagFree(op) ==
    /\ resp.op = op /\ resp.ok
    /\ TagFree(resp.content)

C17_NoGtIsMalformed ==
    ( /\ resp.op = "update"
      /\ ~Falsy(resp.noteId) /\ ~Falsy(resp.content) /\ NamesPath(resp)
      /\ before[ReplyPath(resp)].kind = "file"
      /\ LET text == before[ReplyPath(resp)].data
         IN  /\ Contains(text, noteStartPattern(resp.noteId))
             /\ \A i \in FirstTagAt(text, resp.noteId)..(Len(text) - 1) :
                   text[i + 1] # ">" )
    => /\ ~resp.ok
       /\ resp.error = "Malformed Note tag"
       /\ resp.error # "Note closing tag not found"
       /\ HttpCode(resp, 500)
       /\ files = before
       /\ \A k \in DOMAIN resp.io : resp.io[k].call # "writeFile"

C17_Witness ==
    /\ resp.op = "update" /\ ~resp.ok
    /\ resp.error = "Malformed Note tag"
    /\ resp.noteId = Id7
    /\ before[ReplyPath(resp)].data = TextNoGt
    /\ files = before

(***************************************************************************)
(* C18  In a file with several notes of one id an update rewrites the      *)
(* first of them only: the text before it, every later note of that id     *)
(* and the text between and after them are kept byte for byte.             *)
(***************************************************************************)
\* the positions of text where a note of the id opens
TagsAt(text, noteId) ==
    { i \in 0..Len(text) : StartsAt(text, noteStartPattern(noteId), i) }

C18_FirstOfSeveralRewritten ==
    ( /\ resp.op = "update" /\ resp.ok
      /\ Cardinality(TagsAt(before[ReplyPath(resp)].data, resp.noteId)) >= 2 )
    => LET old      == before[ReplyPath(resp)].data
           new      == files[ReplyPath(resp)].data
           first    == FirstTagAt(old, resp.noteId)
           spanEnd  == FirstCloseFrom(old, FirstGtFrom(old, first)) + Len(CloseTag)
           kept     == SubSeq(old, spanEnd + 1, Len(old))
       IN  /\ SubSeq(new, 1, first) = SubSeq(old, 1, first)
           /\ EndsWith(new, kept)
           /\ Len(new) = first + Len(resp.content) + Len(kept)
           /\ \A p \in TagsAt(old, resp.noteId) :
                 p >= spanEnd =>
                    StartsAt(new, noteStartPattern(resp.noteId),
                             p - spanEnd + first + Len(resp.content))
           /\ OthersUnchanged(ReplyPath(resp))

C18_Witness ==
    /\ resp.op = "update" /\ resp.ok
    /\ resp.noteId = Id7 /\ resp.content = BodyNew
    /\ before[PathA].data = TextDup
    /\ files[PathA].data
          = BodyNew \o << "-" >> \o noteStartPattern(Id7) \o Gt \o << "b" >> \o CloseTag

====
